---- MODULE Spec2Model ----
(***************************************************************************)
(* Model of the filter-driven query orchestrator of the Global Sales       *)
(* dashboard: frontend-next/src/app/page.tsx, component Page.              *)
(*                                                                         *)
(* Program state: the React state of Page (meta, filters, summary,         *)
(* catData, regData, trendData, loading), the metadata GET and the         *)
(* aggregation POSTs that are in flight, and the browser windows opened    *)
(* by downloadCSV.  meta and filters are the state of the last render, the *)
(* one the handlers of the page read; queued holds the updates of the      *)
(* metadata response that React has queued and not rendered yet.           *)
(*                                                                         *)
(* History variables (the program keeps none of them; no guard and no      *)
(* program variable reads them): generation, lastDispatched, slotGen and   *)
(* the gen field of a request in flight.  They record which run of the     *)
(* [filters] effect a request belongs to, so that the properties about     *)
(* generations can be stated over the program's runs.  faults counts the   *)
(* responses that were rejected or came without data, to bound them.       *)
(***************************************************************************)
EXTENDS Integers, Sequences, FiniteSets, TLC

VARIABLES
    meta,            \* useState meta: a list per dimension
    filters,         \* useState filters: a list per dimension
    summary,         \* useState summary
    catData,         \* useState catData
    regData,         \* useState regData
    trendData,       \* useState trendData
    loading,         \* useState loading
    metaReq,         \* the metadata GET: "pending", "resolved" (its updates are
                     \* queued), "loaded" (they are rendered) or "failed"
    queued,          \* updates queued while metaReq = "resolved"
    effectPending,   \* the [filters] effect of the last commit has not run yet
    inflight,        \* the aggregation POSTs not yet settled
    opened,          \* URLs opened by window.open
    generation,      \* history: filter mutations so far
    lastDispatched,  \* history: generation of the last dispatch, or NoGen
    slotGen,         \* history: generation of the response that last set a slot
    faults           \* history: responses rejected or without data so far

vars == <<meta, filters, summary, catData, regData, trendData, loading,
          metaReq, queued, effectPending, inflight, opened,
          generation, lastDispatched, slotGen, faults>>

(* ------------------------------ bounds -------------------------------- *)

\* Filter mutations (toggleItem, toggleSelectAll) in one run of the model.
MaxGen == 1

\* A filter mutation is taken only while at most this many requests are
\* still outstanding when its render starts, those of a pending effect
\* included.
MaxPending == 1

\* Responses of one run that are rejected or lack their data field.
MaxFaults == 1

(* ------------------------------ values -------------------------------- *)

Dims == {"categories", "regions", "years"}

Endpoints == {"summary", "sales_by_category", "sales_by_region", "monthly_trend"}

\* The metadata payloads the service may answer with: duplicate-free lists,
\* some of them empty.
MetaChoices ==
    { [categories |-> <<"A", "B">>, regions |-> <<"East">>, years |-> <<>>],
      [categories |-> <<>>, regions |-> <<"East">>, years |-> <<>>] }

\* Every value a checkbox of the dimension could carry.
Values(d) ==
    CASE d = "categories" -> {"A", "B"}
      [] d = "regions"    -> {"East", "West"}
      [] d = "years"      -> {2022, 2023}

NoGen == -1

\* No update queued: the metadata of the first render and no updater.
NoUpdates ==
    [meta |-> [categories |-> <<>>, regions |-> <<>>, years |-> <<>>],
     updaters |-> <<>>]

Range(s) == { s[i] : i \in 1..Len(s) }

\* JavaScript null in a field of the request body, and an explicit list.
Unrestricted == [isNull |-> TRUE, values |-> <<>>]
Explicit(s) == [isNull |-> FALSE, values |-> s]

\* Slot contents: null (summary before any response), the empty list [], the
\* empty map {}, and the aggregation the service computes for a predicate.
NullValue == [kind |-> "null"]
EmptyValue == [kind |-> "empty"]
EmptyMap == [kind |-> "emptyMap"]
Aggregate(ep, b) == [kind |-> "data", ep |-> ep, body |-> b]

(* ------------------------- pure functions ----------------------------- *)

\* new Set(arr) followed by Array.from: first occurrences, in order.
RECURSIVE SetOrder(_)
SetOrder(s) ==
    IF s = <<>> THEN <<>>
    ELSE LET r == SetOrder(SubSeq(s, 1, Len(s) - 1))
             x == s[Len(s)]
         IN IF x \in Range(r) THEN r ELSE Append(r, x)

\* set.delete(item): the sequence without item, order kept.
RECURSIVE Without(_, _)
Without(s, x) ==
    IF s = <<>> THEN <<>>
    ELSE IF s[1] = x THEN Without(Tail(s), x)
         ELSE <<s[1]>> \o Without(Tail(s), x)

\* toggleItem's updater: prev -> next filters.
toggleItemAlwaysAdd(prev, key, item) ==
    LET set == SetOrder(prev[key])
    IN [prev EXCEPT ![key] = IF item \in Range(set) THEN set ELSE Append(set, item)]

toggleItem(prev, key, item) ==
    LET set == SetOrder(prev[key])
    IN [prev EXCEPT ![key] = IF item \in Range(set) THEN Without(set, item)
                                                     ELSE Append(set, item)]

\* toggleSelectAll's updater: prev -> next filters, reading meta.
toggleSelectAllEveryDimension(prev, key) ==
    [d \in Dims |-> IF Len(prev[key]) = Len(meta[key]) THEN <<>> ELSE meta[d]]

toggleSelectAllNeverClears(prev, key) ==
    [prev EXCEPT ![key] = meta[key]]

toggleSelectAll(prev, key) ==
    LET allSelected == Len(prev[key]) = Len(meta[key])
    IN [prev EXCEPT ![key] = IF allSelected THEN <<>> ELSE meta[key]]

\* React applies the queued updaters in order to the queued filters value;
\* each updater is the closure of the render it was created in.
RECURSIVE Rebase(_, _)
Rebase(base, keys) ==
    IF keys = <<>> THEN base
    ELSE Rebase(toggleSelectAll(base, keys[1]), Tail(keys))

bodyFullIsNull(f) ==
    [d \in Dims |-> IF Len(f[d]) # 0 /\ f[d] # meta[d] THEN Explicit(f[d]) ELSE Unrestricted]

\* The request body built by the [filters] effect.
bodyNeverNull(f) ==
    [d \in Dims |-> Explicit(f[d])]

body(f) ==
    [d \in Dims |-> IF Len(f[d]) # 0 THEN Explicit(f[d]) ELSE Unrestricted]

downloadURLOfSelection ==
    IF Len(filters.categories) # 0 THEN "/api/download?filtered" ELSE "/api/download"

\* The URL downloadCSV opens, without the BACKEND_BASE prefix.
downloadURL == "/api/download"

\* What a POST puts on the wire: the endpoint's URL and the body.
Carried(req) == [ep |-> req.ep, body |-> req.body]

\* A selection read as a set per dimension.
AsSet(f) == [d \in Dims |-> Range(f[d])]

MetaLoaded == metaReq = "loaded"

MetaPopulated == \E d \in Dims : Len(meta[d]) # 0

(* ------------------------------ slots --------------------------------- *)

Slot(ep) ==
    CASE ep = "summary"           -> summary
      [] ep = "sales_by_category" -> catData
      [] ep = "sales_by_region"   -> regData
      [] ep = "monthly_trend"     -> trendData

SlotNext(ep) ==
    CASE ep = "summary"           -> summary'
      [] ep = "sales_by_category" -> catData'
      [] ep = "sales_by_region"   -> regData'
      [] ep = "monthly_trend"     -> trendData'

\* What a .then handler stores: r.data for summary, r.data.data || [] (or {})
\* for the other three.  present = the response has its data field.
StoredKeepsOnMissing(req, present) ==
    IF req.ep = "summary" \/ present THEN Aggregate(req.ep, req.body)
    ELSE Slot(req.ep)

Stored(req, present) ==
    IF req.ep = "summary" THEN Aggregate(req.ep, req.body)
    ELSE IF present THEN Aggregate(req.ep, req.body)
    ELSE IF req.ep = "monthly_trend" THEN EmptyMap ELSE EmptyValue

(* ------------------------------ Init ---------------------------------- *)

\* After the first render and both mount effects: the metadata GET is in
\* flight, the [filters] effect has returned at its guard.
Init ==
    /\ meta = [categories |-> <<>>, regions |-> <<>>, years |-> <<>>]
    /\ filters = [categories |-> <<>>, regions |-> <<>>, years |-> <<>>]
    /\ summary = NullValue
    /\ catData = EmptyValue
    /\ regData = EmptyValue
    /\ trendData = EmptyMap
    /\ loading = FALSE
    /\ metaReq = "pending"
    /\ queued = NoUpdates
    /\ effectPending = FALSE
    /\ inflight = {}
    /\ opened = {}
    /\ generation = 0
    /\ lastDispatched = NoGen
    /\ slotGen = [ep \in Endpoints |-> NoGen]
    /\ faults = 0

(* ----------------------------- actions -------------------------------- *)

FiltersEffectSummaryFirst(f, g) ==
    IF Len(f.categories) = 0
    THEN /\ UNCHANGED <<loading, inflight, lastDispatched>>
    ELSE /\ loading' = FALSE
         /\ inflight' = inflight \cup { [ep |-> "summary", body |-> body(f), gen |-> g] }
         /\ lastDispatched' = g

FiltersEffectNoGuard(f, g) ==
    /\ loading' = FALSE
    /\ inflight' = inflight \cup { [ep |-> ep, body |-> body(f), gen |-> g] : ep \in Endpoints }
    /\ lastDispatched' = g

\* The requests one run of the [filters] effect posts for the filters f.
Dispatched(f, g) ==
    IF Len(f.categories) = 0 THEN {}
    ELSE { [ep |-> ep, body |-> body(f), gen |-> g] : ep \in Endpoints }

\* The [filters] effect, run on the filters f just committed, as generation g.
FiltersEffect(f, g) ==
    IF Len(f.categories) = 0
    THEN /\ UNCHANGED <<loading, inflight, lastDispatched>>
    ELSE LET b == body(f)
             l1 == TRUE     \* setLoading(true)
             l2 == FALSE    \* setLoading(false), before any response
         IN /\ loading' = l2
            /\ inflight' = inflight \cup { [ep |-> ep, body |-> b, gen |-> g] : ep \in Endpoints }
            /\ lastDispatched' = g

\* The metadata GET resolves: its .then queues setMeta and setFilters and
\* returns; nothing is rendered and no effect runs in this task.
MetadataSuccess ==
    /\ metaReq = "pending"
    /\ \E m \in MetaChoices :
        queued' = [meta |-> m, updaters |-> <<>>]
    /\ metaReq' = "resolved"
    /\ UNCHANGED <<meta, filters, summary, catData, regData, trendData, loading,
                   effectPending, inflight, opened, generation, lastDispatched, slotGen, faults>>

\* React renders and commits the queued updates in a task of its scheduler:
\* meta, then filters as the queued value with the updaters queued since
\* applied to it.  The [filters] effect of this commit runs in a later task.
MetadataRender ==
    /\ metaReq = "resolved"
    /\ meta' = queued.meta
    /\ filters' = Rebase([categories |-> queued.meta.categories,
                          regions |-> queued.meta.regions,
                          years |-> queued.meta.years], queued.updaters)
    /\ metaReq' = "loaded"
    /\ queued' = NoUpdates
    /\ effectPending' = TRUE
    /\ UNCHANGED <<summary, catData, regData, trendData, loading, inflight, opened,
                   generation, lastDispatched, slotGen, faults>>

\* The [filters] effect of the metadata commit runs.
RunFiltersEffect ==
    /\ effectPending
    /\ FiltersEffect(filters, generation)
    /\ effectPending' = FALSE
    /\ UNCHANGED <<meta, filters, summary, catData, regData, trendData, metaReq,
                   queued, opened, generation, slotGen, faults>>

\* The metadata GET rejects: console.error only.
MetadataFailure ==
    /\ metaReq = "pending"
    /\ metaReq' = "failed"
    /\ UNCHANGED <<meta, filters, summary, catData, regData, trendData, loading,
                   queued, effectPending, inflight, opened, generation, lastDispatched, slotGen, faults>>

\* A click handler calls setFilters; React renders it in the click's own task
\* and runs the [filters] effect before the task ends.  An effect still
\* pending from the last commit runs first, on the filters of that commit.
Mutation(next) ==
    /\ generation < MaxGen
    /\ Cardinality(inflight \cup (IF effectPending
                                  THEN Dispatched(filters, generation)
                                  ELSE {})) <= MaxPending
    /\ filters' = next
    /\ generation' = generation + 1
    /\ IF effectPending
       THEN /\ inflight' = inflight \cup Dispatched(filters, generation)
                                    \cup Dispatched(next, generation + 1)
            /\ lastDispatched' = IF Len(next.categories) # 0 THEN generation + 1
                                 ELSE IF Len(filters.categories) # 0 THEN generation
                                 ELSE lastDispatched
            /\ loading' = FALSE
       ELSE FiltersEffect(next, generation + 1)
    /\ effectPending' = FALSE
    /\ UNCHANGED <<meta, summary, catData, regData, trendData, metaReq, opened,
                   slotGen, faults>>

\* A checkbox of dimension key changes: the UI renders one per value of meta[key].
ToggleItem ==
    \E key \in Dims : \E item \in Range(meta[key]) :
        /\ Mutation(toggleItem(filters, key, item))
        /\ UNCHANGED queued

\* The select-all button of dimension key is clicked.  While the updates of
\* the metadata response are queued and React renders the click apart from
\* them (React 18), the updater joins them and is applied again when they are
\* rendered.
ToggleSelectAll ==
    \E key \in Dims :
        /\ Mutation(toggleSelectAll(filters, key))
        /\ queued' = IF metaReq = "resolved"
                     THEN [queued EXCEPT !.updaters = Append(@, key)]
                     ELSE queued

\* The select-all button of dimension key is clicked while the updates of the
\* metadata response are queued, and React renders them with the click
\* (React 19): meta, filters with the updater applied, then the effect.  The
\* source does not pin the version of React, so both renderings are steps.
ToggleSelectAllWithQueue ==
    \E key \in Dims :
        /\ metaReq = "resolved"
        /\ queued.updaters = <<>>
        /\ generation < MaxGen
        /\ Cardinality(inflight) <= MaxPending
        /\ meta' = queued.meta
        /\ filters' = Rebase([categories |-> queued.meta.categories,
                              regions |-> queued.meta.regions,
                              years |-> queued.meta.years], <<key>>)
        /\ generation' = generation + 1
        /\ FiltersEffect(filters', generation + 1)
        /\ metaReq' = "loaded"
        /\ queued' = NoUpdates
        /\ effectPending' = FALSE
        /\ UNCHANGED <<summary, catData, regData, trendData, opened, slotGen, faults>>

\* A POST resolves and its .then handler stores the result in its slot.
ResponseSuccess ==
    \E req \in inflight : \E present \in BOOLEAN :
        /\ (req.ep = "summary" => present)
        /\ (~present => faults < MaxFaults)
        /\ faults' = IF present THEN faults ELSE faults + 1
        /\ inflight' = inflight \ {req}
        /\ summary' = IF req.ep = "summary" THEN Stored(req, present) ELSE summary
        /\ catData' = IF req.ep = "sales_by_category" THEN Stored(req, present) ELSE catData
        /\ regData' = IF req.ep = "sales_by_region" THEN Stored(req, present) ELSE regData
        /\ trendData' = IF req.ep = "monthly_trend" THEN Stored(req, present) ELSE trendData
        /\ slotGen' = [slotGen EXCEPT ![req.ep] = req.gen]
        /\ UNCHANGED <<meta, filters, loading, metaReq, queued, effectPending, opened,
                       generation, lastDispatched>>

ResponseFailureClears ==
    \E req \in inflight :
        /\ faults < MaxFaults
        /\ faults' = faults + 1
        /\ inflight' = inflight \ {req}
        /\ summary' = IF req.ep = "summary" THEN NullValue ELSE summary
        /\ catData' = IF req.ep = "sales_by_category" THEN EmptyValue ELSE catData
        /\ regData' = IF req.ep = "sales_by_region" THEN EmptyValue ELSE regData
        /\ trendData' = IF req.ep = "monthly_trend" THEN EmptyMap ELSE trendData
        /\ UNCHANGED <<meta, filters, loading, metaReq, queued, effectPending, opened, generation,
                       lastDispatched, slotGen>>

\* A POST rejects: .catch(() => {}).
ResponseFailure ==
    \E req \in inflight :
        /\ faults < MaxFaults
        /\ faults' = faults + 1
        /\ inflight' = inflight \ {req}
        /\ UNCHANGED <<meta, filters, summary, catData, regData, trendData, loading,
                       metaReq, queued, effectPending, opened, generation, lastDispatched, slotGen>>

\* The Download CSV button: window.open of the download URL.
DownloadCSV ==
    /\ opened' = opened \cup {downloadURL}
    /\ UNCHANGED <<meta, filters, summary, catData, regData, trendData, loading,
                   metaReq, queued, effectPending, inflight, generation, lastDispatched, slotGen, faults>>

Next ==
    \/ MetadataSuccess
    \/ MetadataRender
    \/ RunFiltersEffect
    \/ MetadataFailure
    \/ ToggleItem
    \/ ToggleSelectAll
    \/ ToggleSelectAllWithQueue
    \/ ResponseSuccess
    \/ ResponseFailure
    \/ DownloadCSV

Spec == Init /\ [][Next]_vars

(* ------------------------------ claims -------------------------------- *)

\* C1 (stale discard, P5): a response of generation g1 that arrives when its
\* slot already holds data of a generation g2 > g1 leaves the slot unchanged.
StaleDiscard ==
    [][\A req \in inflight :
          (req \notin inflight' /\ slotGen[req.ep] > req.gen)
              => SlotNext(req.ep) = Slot(req.ep)]_vars

\* C2: a response of an older generation that arrives after a newer generation
\* was dispatched, while the newer request for that slot is still outstanding,
\* does not overwrite the slot.
StalePendingDiscard ==
    [][\A req \in inflight :
          ( /\ req \notin inflight'
            /\ req.gen < lastDispatched
            /\ \E newer \in inflight : newer.ep = req.ep /\ newer.gen = lastDispatched )
              => SlotNext(req.ep) = Slot(req.ep)]_vars

\* C3 (consistent final state): once nothing is outstanding and every request
\* succeeded with its data, each of the four slots holds the result of the
\* latest dispatched predicate.
ConsistentFinalState ==
    (inflight = {} /\ faults = 0 /\ lastDispatched # NoGen)
        => \A ep \in Endpoints :
              /\ slotGen[ep] = lastDispatched
              /\ (Len(filters.categories) # 0 => Slot(ep) = Aggregate(ep, body(filters)))

\* C4: while a request of the most recently dispatched group is outstanding,
\* loading is true.
LoadingWhileOutstanding ==
    (\E req \in inflight : req.gen = lastDispatched) => loading = TRUE

\* C5 as stated (P1): an empty and a full selection of a dimension give the
\* same predicate value for it, unrestricted.
WildcardLaw ==
    \A d \in Dims :
        /\ body([filters EXCEPT ![d] = <<>>])[d] = Unrestricted
        /\ body([filters EXCEPT ![d] = meta[d]])[d] = Unrestricted

\* C5 as amended: an empty selection gives unrestricted; a full selection of a
\* dimension gives the explicit list of all its values (unrestricted only if
\* the dimension has no value); with categories {A,B}, regions {East} and no
\* years, the all-selected state gives ([A,B], [East], unrestricted), and
\* unselecting A there gives [B] for categories and leaves the other two.
\* Stated for every selection a filter mutation or a dispatch starts from or
\* produces.
PredicateOfEmptyAndFull ==
    [][LET Law ==
                /\ \A d \in Dims :
                      /\ body([filters EXCEPT ![d] = <<>>])[d] = Unrestricted
                      /\ body([filters EXCEPT ![d] = meta[d]])[d] =
                            IF Len(meta[d]) = 0 THEN Unrestricted ELSE Explicit(meta[d])
                /\ (meta.categories = <<"A", "B">> /\ filters = meta) =>
                      /\ body(filters) =
                            [categories |-> Explicit(<<"A", "B">>),
                             regions |-> Explicit(<<"East">>),
                             years |-> Unrestricted]
                      /\ body(toggleItem(filters, "categories", "A")) =
                            [categories |-> Explicit(<<"B">>),
                             regions |-> Explicit(<<"East">>),
                             years |-> Unrestricted]
        IN (generation' # generation \/ lastDispatched' # lastDispatched)
                 => Law /\ Law']_vars

\* C5 witness: the all-selected state after the metadata response, with the
\* four requests in flight naming both categories.
WitnessFullSelection ==
    /\ meta.categories = <<"A", "B">>
    /\ filters = meta
    /\ generation = 0
    /\ \A ep \in Endpoints :
           \E req \in inflight :
               /\ req.ep = ep
               /\ req.body = body(filters)
               /\ req.body.categories = Explicit(<<"A", "B">>)

\* C6: with MetadataSet populated (here: with categories to choose from),
\* every filter mutation dispatches the four aggregation requests of its
\* generation, also when it leaves the categories selection empty.
EveryMutationDispatches ==
    [][(generation' # generation /\ MetaLoaded /\ MetaPopulated /\ Len(meta.categories) # 0)
          => \A ep \in Endpoints :
                \E req \in inflight' : req.ep = ep /\ req.gen = generation']_vars

\* C7: every selected value belongs to MetadataSet of its dimension, and
\* toggleItem with a value outside MetadataSet leaves FilterSelection unchanged.
SelectionWithinMetadata ==
    MetaLoaded =>
        /\ \A d \in Dims : Range(filters[d]) \subseteq Range(meta[d])
        /\ \A d \in Dims : \A v \in Values(d) \ Range(meta[d]) :
              toggleItem(filters, d, v) = filters

\* C8 as stated (P3): toggleSelectAll(d) twice returns FilterSelection to its
\* original state, whatever the starting selection.
SelectAllInvolution ==
    \A d \in Dims :
        toggleSelectAll(toggleSelectAll(filters, d), d) = filters

\* C8 as amended: from an empty or a full selection of d, toggleSelectAll(d)
\* twice gives back the same selection as a set per dimension; from a partial
\* selection it gives the empty selection of d.  Stated for every selection a
\* filter mutation starts from or produces.
SelectAllTwice ==
    [][LET Twice ==
                \A d \in Dims :
                    LET twice == toggleSelectAll(toggleSelectAll(filters, d), d)
                    IN /\ (Len(filters[d]) = 0 \/ Len(filters[d]) = Len(meta[d]))
                             => AsSet(twice) = AsSet(filters)
                       /\ (Len(filters[d]) # 0 /\ Len(filters[d]) # Len(meta[d]))
                             => twice = [filters EXCEPT ![d] = <<>>]
        IN generation' # generation => Twice /\ Twice']_vars

\* C8 witness: the select-all button has cleared the fully selected
\* categories; a second click selects both again.
WitnessSelectAllCleared ==
    /\ generation = 1
    /\ meta.categories = <<"A", "B">>
    /\ filters.categories = <<>>
    /\ toggleSelectAll(filters, "categories").categories = <<"A", "B">>

\* C9 (P2): toggleItem(d, v) twice returns FilterSelection, as a set per
\* dimension, to its original state: for every dimension and value, from every
\* selection a filter mutation starts from or produces.
ToggleItemTwice ==
    [][generation' # generation =>
          \A d \in Dims : \A v \in Values(d) :
              /\ AsSet(toggleItem(toggleItem(filters, d, v), d, v)) = AsSet(filters)
              /\ AsSet(toggleItem(toggleItem(filters', d, v), d, v)) = AsSet(filters')]_vars

\* C9 witness: the checkbox of A has been toggled off; a second toggle
\* appends A after B.
WitnessItemToggled ==
    /\ generation = 1
    /\ meta.categories = <<"A", "B">>
    /\ filters.categories = <<"B">>
    /\ toggleItem(filters, "categories", "A").categories = <<"B", "A">>

\* C10 (P4): every outgoing request carries the generation it was dispatched
\* under: what two requests of different generations carry differs.
RequestsCarryGeneration ==
    \A r1 \in inflight : \A r2 \in inflight :
        Carried(r1) = Carried(r2) => r1.gen = r2.gen

\* C11 (partial failure isolation, P6): a rejected request leaves its slot and
\* every other slot as they were and the remaining requests in flight; a
\* request that resolves stores its response in its own slot.
PartialFailureIsolation ==
    [][\A req \in inflight :
          req \notin inflight' =>
              /\ inflight' = inflight \ {req}
              /\ metaReq' = metaReq
              /\ IF slotGen'[req.ep] # req.gen
                 THEN \A ep \in Endpoints : SlotNext(ep) = Slot(ep)
                 ELSE SlotNext(req.ep) \in
                         {Aggregate(req.ep, req.body), EmptyValue, EmptyMap}]_vars

\* C11 witness: the sales_by_region request of generation 1 failed and the
\* other three succeeded: regData still holds the generation-0 result.
WitnessRegionFailed ==
    /\ inflight = {}
    /\ faults = 1
    /\ slotGen["sales_by_region"] = 0
    /\ \A ep \in Endpoints \ {"sales_by_region"} : slotGen[ep] = 1
    /\ regData.kind = "data"
    /\ regData # Aggregate("sales_by_region", body(filters))
    /\ summary = Aggregate("summary", body(filters))
    /\ catData = Aggregate("sales_by_category", body(filters))
    /\ trendData = Aggregate("monthly_trend", body(filters))

\* C12 (metadata bootstrap): the step that renders a successful metadata
\* fetch populates meta and makes the selection the full set of every
\* dimension; the effect that follows dispatches the first four requests when
\* meta is populated; a failed fetch leaves meta and the selection empty;
\* while meta is empty nothing has ever been dispatched.
MetadataBootstrap ==
    [][/\ (metaReq = "resolved" /\ metaReq' = "loaded") =>
              /\ meta' = queued.meta
              /\ \A d \in Dims : filters'[d] = meta'[d]
       /\ (effectPending /\ ~effectPending' /\ \E d \in Dims : Len(meta[d]) # 0) =>
              \A ep \in Endpoints :
                  \E req \in inflight' \ inflight :
                      req.ep = ep /\ req.body = body(filters)
       /\ (metaReq = "pending" /\ metaReq' = "failed") =>
              /\ \A d \in Dims : Len(meta'[d]) = 0 /\ Len(filters'[d]) = 0
              /\ inflight' = {}
       /\ (\A d \in Dims : Len(meta'[d]) = 0) =>
              inflight' = {} /\ lastDispatched' = NoGen]_vars

\* C13 (toggleSelectAll): a dimension selected with as many values as meta has
\* becomes empty, any other selection becomes exactly meta's list; a fully
\* selected dimension is cleared.  Stated for every selection a filter
\* mutation starts from or produces.
SelectAllCardinalityRule ==
    [][LET Rule ==
                \A d \in Dims :
                    /\ toggleSelectAll(filters, d)[d]
                           = IF Cardinality(Range(filters[d])) = Cardinality(Range(meta[d]))
                             THEN <<>> ELSE meta[d]
                    /\ filters[d] = meta[d] => toggleSelectAll(filters, d)[d] = <<>>
        IN generation' # generation => Rule /\ Rule']_vars

\* C13 witness: a partial selection of categories, which toggleSelectAll
\* fills, next to a fully selected regions, which it clears.
WitnessPartialCategories ==
    /\ meta.categories = <<"A", "B">>
    /\ filters.categories = <<"B">>
    /\ filters.regions = <<"East">>
    /\ toggleSelectAll(filters, "categories").categories = <<"A", "B">>
    /\ toggleSelectAll(filters, "regions").regions = <<>>

\* C14 (concurrent fan-out): the requests a step puts in flight come in
\* groups of exactly four per generation, one per endpoint, all with the same
\* body, the one built from the committed selection for the newest group; the
\* step waits for none of them; a response leaves the slots of the other three
\* endpoints and the other requests as they were.
ConcurrentFanOut ==
    [][IF inflight' = inflight
       THEN lastDispatched' = lastDispatched
       ELSE LET posted == inflight' \ inflight
                settled == inflight \ inflight'
            IN /\ \A req \in posted :
                      /\ {r \in posted : r.gen = req.gen}
                             = {[ep |-> ep, body |-> req.body, gen |-> req.gen]
                                    : ep \in Endpoints}
                      /\ req.gen = lastDispatched' => req.body = body(filters')
               /\ lastDispatched' # lastDispatched =>
                      /\ \E req \in posted : req.gen = lastDispatched'
                      /\ settled = {}
                      /\ \A ep \in Endpoints : SlotNext(ep) = Slot(ep)
               /\ \A req \in settled :
                      /\ settled = {req}
                      /\ posted = {}
                      /\ \A ep \in Endpoints \ {req.ep} : SlotNext(ep) = Slot(ep)]_vars

\* C14 witness: the summary slot holds its response while the three other
\* requests of the same dispatch are still outstanding.
WitnessSummaryFirst ==
    /\ slotGen["summary"] = 0
    /\ summary = Aggregate("summary", body(filters))
    /\ {req.ep : req \in {r \in inflight : r.gen = 0}}
           = Endpoints \ {"summary"}
    /\ catData = EmptyValue /\ regData = EmptyValue /\ trendData = EmptyMap

\* C15 (predicate builder): in the body of every request, an empty selection
\* is the null (unrestricted) field and a non-empty selection is the explicit
\* list of the selected values; the body of the requests of the current
\* generation is that function of the current selection, the same for all four.
PredicateBuilderMapping ==
    \A req \in inflight :
        /\ \A d \in Dims :
               req.body[d] = IF Len(req.body[d].values) = 0
                             THEN Unrestricted ELSE Explicit(req.body[d].values)
        /\ req.gen = generation =>
               \A d \in Dims :
                   req.body[d] = IF filters[d] = <<>>
                                 THEN Unrestricted ELSE Explicit(filters[d])

\* C15 witness: a request of the current generation with an explicit
\* one-value categories field and the unrestricted years field.
WitnessMixedPredicate ==
    \E req \in inflight :
        /\ req.gen = generation
        /\ filters.categories = <<"B">> /\ filters.years = <<>>
        /\ req.body.categories = Explicit(<<"B">>)
        /\ req.body.regions = Explicit(<<"East">>)
        /\ req.body.years = Unrestricted

\* C16 (missing data field): a response that resolves without a data field
\* makes the category or region slot the empty list and the trend slot the
\* empty map, whatever the slot held before.
MissingDataIsEmpty ==
    [][\A req \in inflight :
          (req \notin inflight' /\ slotGen'[req.ep] = req.gen /\ faults' # faults) =>
              /\ req.ep # "summary"
              /\ SlotNext(req.ep)
                     = IF req.ep = "monthly_trend" THEN EmptyMap ELSE EmptyValue]_vars

\* C16 witness: the monthly_trend response of generation 1 carried no data
\* field: the trend slot is the empty map while summary holds data.
WitnessTrendMissingData ==
    /\ slotGen["monthly_trend"] = 1
    /\ faults = 1
    /\ trendData = EmptyMap
    /\ summary.kind = "data"

\* C17 (frame of the filter operations): a toggleItem or toggleSelectAll step
\* leaves the four view slots as they were and changes the selection of one
\* dimension only: against the rendered selection, with meta unchanged, or,
\* when the click is rendered together with the queued metadata updates,
\* against the selection and the meta those updates set.
FilterOperationFrame ==
    [][generation' # generation =>
          /\ \A ep \in Endpoints : SlotNext(ep) = Slot(ep)
          /\ IF metaReq = "resolved" /\ metaReq' = "loaded"
             THEN /\ meta' = queued.meta
                  /\ \E d \in Dims : \A e \in Dims \ {d} : filters'[e] = queued.meta[e]
             ELSE /\ meta' = meta
                  /\ \E d \in Dims : \A e \in Dims \ {d} : filters'[e] = filters[e]]_vars

\* C17 witness: category A was toggled off after the first results arrived:
\* regions and years are still fully selected and the slots hold the results
\* of the full selection.
WitnessOnlyCategoriesChanged ==
    /\ generation = 1
    /\ meta.categories = <<"A", "B">>
    /\ filters.categories = <<"B">>
    /\ filters.regions = meta.regions /\ filters.years = meta.years
    /\ slotGen["summary"] = 0
    /\ summary = Aggregate("summary", body([filters EXCEPT !.categories = <<"A", "B">>]))

\* C18 (categories guard): every request in flight, and every result stored in
\* a slot, has a categories field that is an explicit non-empty list; a
\* mutation that leaves categories empty dispatches no request of its own and
\* leaves the slots alone; a mutation that leaves categories non-empty
\* dispatches.
CategoriesNeverUnrestricted ==
    [][/\ \A req \in inflight' :
              ~req.body.categories.isNull /\ Len(req.body.categories.values) # 0
       /\ \A ep \in Endpoints :
              SlotNext(ep).kind = "data" => ~SlotNext(ep).body.categories.isNull
       /\ (generation' # generation /\ Len(filters'.categories) = 0) =>
              /\ \A req \in inflight' : req.gen # generation'
              /\ lastDispatched' # generation'
              /\ \A ep \in Endpoints : SlotNext(ep) = Slot(ep)
       /\ (generation' # generation /\ Len(filters'.categories) # 0) =>
              lastDispatched' = generation']_vars

\* C18 witness: the user emptied categories after the results of the full
\* selection arrived: nothing was dispatched and the four slots still hold the
\* results of the previous predicate.
WitnessStaleAfterEmptyCategories ==
    /\ meta.categories = <<"A", "B">>
    /\ filters.categories = <<>>
    /\ generation = 1 /\ lastDispatched = 0
    /\ inflight = {}
    /\ \A ep \in Endpoints :
           Slot(ep) = Aggregate(ep, body([filters EXCEPT !.categories = <<"A", "B">>]))

\* C19 (download independence): a downloadCSV step opens /api/download, the
\* same URL whatever the selection, and changes nothing else: selection, meta,
\* loading, the four slots and the requests in flight stay as they were.
DownloadIndependence ==
    [][/\ opened' \subseteq {"/api/download"}
       /\ opened' # opened =>
              /\ opened' = opened \cup {"/api/download"}
              /\ UNCHANGED <<meta, filters, summary, catData, regData, trendData,
                             loading, metaReq, queued, effectPending, inflight, generation,
                             lastDispatched, slotGen, faults>>]_vars

\* C19 witness: the download was opened while a one-category selection is
\* active and its four requests are in flight.
WitnessDownloadDuringQuery ==
    /\ opened = {"/api/download"}
    /\ Len(filters.categories) = 1
    /\ Cardinality({req \in inflight : req.gen = generation}) = 4

====
